---- MODULE Spec2Model ----
(***************************************************************************)
(* Grid Composer (table-forge): the table document model                   *)
(* (lib/types/table.ts), the Grid Editor (table-builder.tsx), the Format   *)
(* Toolbar (cell-format-toolbar.tsx) and the Host Sync Controller          *)
(* (table-forge.tsx) as one state machine.                                 *)
(*                                                                         *)
(* Representation.                                                         *)
(*  - A typed in-memory value (TableData, TableRow, ...) is a TLA+ record; *)
(*    an optional field that is absent is a field the record does not have.*)
(*  - A value of type `unknown` (what JSON.parse returns, what getValue    *)
(*    resolves to) is a tagged tree: [t |-> "null"], [t |-> "str", str |-> *)
(*    s], [t |-> "arr", arr |-> <<...>>], [t |-> "obj", obj |-> [key |-> ..]].*)
(*  - A JS string holding field text is [json |-> tree] when it is JSON    *)
(*    text (the tree JSON.parse yields) and [raw |-> chars] otherwise.     *)
(*    Two JSON texts written by JSON.stringify from documents built by the *)
(*    same spreads have their keys in the same order, so they are equal as *)
(*    strings exactly when their trees are equal.                          *)
(*  - A nullable React state is <<>> (null) or <<value>>.                  *)
(*  - crypto.randomUUID() is a fresh id drawn from the counter nextId;     *)
(*    new Date().toISOString() is the clock `now`, which Tick advances.    *)
(***************************************************************************)
EXTENDS Integers, Sequences, FiniteSets, TLC

\* ---------------------------------------------------------------- bounds
\* Grid Editor user events (button clicks, cell clicks, committed edits) in a run.
MaxEdits == 2
\* Clock ticks (milliseconds that pass) in a run.
MaxTime == 1
\* Rows, and columns, asked of createEmptyTable when it is called on its own.
MaxCount == 3
\* createEmptyTable(3, 3, true): the fallback table of loadInitialData.
FallbackRows == 3
FallbackColumns == 3

\* ---------------------------------------------------------------- values
null == <<>>
Some(x) == <<x>>

EmptyObject == [k \in {} |-> ""]

\* { ...o, [k]: v }
Spread(o, k, v) == [f \in DOMAIN o \cup {k} |-> IF f = k THEN v ELSE o[f]]

Has(o, k) == k \in DOMAIN o

Min(S) == CHOOSE x \in S : \A y \in S : x <= y

\* crypto.randomUUID(): the n-th id drawn.
UUID(n) == "u" \o ToString(n)

\* new Date(t).toISOString()
ISO(t) == "T" \o ToString(t)

\* ---------------------------------------------------- values of type unknown
JNull == [t |-> "null"]
JUndefined == [t |-> "undefined"]
JStr(s) == [t |-> "str", str |-> s]
JNum(n) == [t |-> "num", num |-> n]
JBool(b) == [t |-> "bool", bool |-> b]
JArr(s) == [t |-> "arr", arr |-> s]
JObj(r) == [t |-> "obj", obj |-> r]

\* !v
Falsy(v) ==
  \/ v.t \in {"null", "undefined"}
  \/ v.t = "bool" /\ ~v.bool
  \/ v.t = "num" /\ v.num = 0
  \/ v.t = "str" /\ v.str = ""

\* v[k] for a v that is neither null nor undefined: a primitive or an array has
\* none of the keys read here.
Get(v, k) == IF v.t = "obj" /\ k \in DOMAIN v.obj THEN v.obj[k] ELSE JUndefined

\* The result of a loop `for (x of seq) { if (...) return false }`, given what its
\* body does on each element in turn: "true" (falls through), "false" (returns
\* false) or "throw".
FirstExit(bodies) ==
  LET exits == {i \in 1..Len(bodies) : bodies[i] # "true"}
  IN IF exits = {} THEN "true" ELSE bodies[Min(exits)]

\* Faulty variant of the cell check: the type of content is not looked at.
ValidateCellIdOnly(cell) ==
  IF cell.t \in {"null", "undefined"} THEN "throw"
  ELSE IF Falsy(Get(cell, "id")) THEN "false"
  ELSE "true"

\* table.ts:198-200, one cell of the loop
ValidateCell(cell) ==
  IF cell.t \in {"null", "undefined"} THEN "throw"
  ELSE IF Falsy(Get(cell, "id")) \/ Get(cell, "content").t # "str" THEN "false"
  ELSE "true"

\* table.ts:193-201, one row of the loop
ValidateRow(row, columnCount) ==
  IF row.t \in {"null", "undefined"} THEN "throw"
  ELSE IF Falsy(Get(row, "id")) \/ Get(row, "cells").t # "arr" THEN "false"
  ELSE IF Len(Get(row, "cells").arr) # columnCount THEN "false"
  ELSE LET cells == Get(row, "cells").arr
       IN FirstExit([j \in 1..Len(cells) |-> ValidateCell(cells[j])])

\* table.ts:204-206, one column of the loop
ValidateColumn(column) ==
  IF column.t \in {"null", "undefined"} THEN "throw"
  ELSE IF Falsy(Get(column, "id")) THEN "false"
  ELSE "true"

\* validateTableData on a value of type unknown: "true", "false", or "throw" when
\* it reads a property of a null element.
ValidateOutcome(data) ==
  IF Falsy(data) \/ data.t \notin {"obj", "arr"} THEN "false"
  ELSE IF \/ Falsy(Get(data, "version"))
          \/ Get(data, "rows").t # "arr"
          \/ Get(data, "columns").t # "arr" THEN "false"
  ELSE LET columns == Get(data, "columns").arr
           rows == Get(data, "rows").arr
           rowLoop == FirstExit([i \in 1..Len(rows) |-> ValidateRow(rows[i], Len(columns))])
       IN IF rowLoop # "true" THEN rowLoop
          ELSE FirstExit([j \in 1..Len(columns) |-> ValidateColumn(columns[j])])

\* ------------------------------------------ typed values <-> unknown values
\* JSON.stringify's tree of a typed value, by the TypeScript type of each field.
LiftStrings(o) == JObj([k \in DOMAIN o |-> JStr(o[k])])

LiftFormat(f) ==
  JObj([k \in DOMAIN f |-> IF k = "wrap" THEN JBool(f[k]) ELSE JStr(f[k])])

LiftCell(cell) ==
  JObj([k \in DOMAIN cell |->
         IF k = "format" THEN LiftFormat(cell[k]) ELSE JStr(cell[k])])

LiftRow(row) ==
  JObj([k \in DOMAIN row |->
         CASE k = "cells" -> JArr([j \in 1..Len(row.cells) |-> LiftCell(row.cells[j])])
           [] k = "isHeader" -> JBool(row[k])
           [] OTHER -> JStr(row[k])])

LiftSettings(s) ==
  JObj([k \in DOMAIN s |->
         CASE k = "defaultCellFormat" -> LiftFormat(s[k])
           [] k = "caption" -> JStr(s[k])
           [] OTHER -> JBool(s[k])])

LiftTable(data) ==
  JObj([k \in DOMAIN data |->
         CASE k = "rows" -> JArr([i \in 1..Len(data.rows) |-> LiftRow(data.rows[i])])
           [] k = "columns" ->
                JArr([j \in 1..Len(data.columns) |-> LiftStrings(data.columns[j])])
           [] k = "settings" -> LiftSettings(data[k])
           [] k = "metadata" -> LiftStrings(data[k])
           [] OTHER -> JStr(data[k])])

\* The typed view of a tree that validateTableData accepted (`data is TableData`).
RECURSIVE Lower(_)
Lower(v) ==
  CASE v.t = "obj" -> [k \in DOMAIN v.obj |-> Lower(v.obj[k])]
    [] v.t = "arr" -> [i \in 1..Len(v.arr) |-> Lower(v.arr[i])]
    [] v.t = "str" -> v.str
    [] v.t = "num" -> v.num
    [] v.t = "bool" -> v.bool
    [] OTHER -> v

\* ------------------------------------------------------------ field text
JsonText(tree) == [json |-> tree]
RawText(chars) == [raw |-> chars]

IsWhitespace(ch) == ch \in {" ", "\t", "\n"}

\* String.prototype.trim on a raw text's characters
RECURSIVE TrimStart(_)
TrimStart(chars) ==
  IF chars # <<>> /\ IsWhitespace(Head(chars)) THEN TrimStart(Tail(chars)) ELSE chars

RECURSIVE TrimEnd(_)
TrimEnd(chars) ==
  IF chars # <<>> /\ IsWhitespace(chars[Len(chars)])
  THEN TrimEnd(SubSeq(chars, 1, Len(chars) - 1)) ELSE chars

Trim(text) == IF Has(text, "json") THEN text ELSE RawText(TrimEnd(TrimStart(text.raw)))

\* A JS string is falsy exactly when it is "".
EmptyString(text) == Has(text, "raw") /\ text.raw = <<>>

\* -------------------------------------------------- table.ts: Document Model
DefaultFormat ==
  [align |-> "left", verticalAlign |-> "middle", fontWeight |-> "normal", wrap |-> TRUE]

\* createEmptyCell, drawing id n
CreateEmptyCell(n) == [id |-> UUID(n), content |-> "", format |-> DefaultFormat]

\* Faulty variant of createEmptyRow: the isHeader argument is dropped.
CreateEmptyRowPlain(columnCount, isHeader, n) ==
  [id |-> UUID(n),
   isHeader |-> FALSE,
   cells |-> [j \in 1..columnCount |-> CreateEmptyCell(n + j)]]

\* createEmptyRow, drawing ids n .. n + columnCount
CreateEmptyRow(columnCount, isHeader, n) ==
  [id |-> UUID(n),
   isHeader |-> isHeader,
   cells |-> [j \in 1..columnCount |-> CreateEmptyCell(n + j)]]

\* createEmptyColumn, drawing id n
CreateEmptyColumn(n) == [id |-> UUID(n), width |-> "auto"]

\* Ids createEmptyTable(rows, columns, _) draws.
TableIds(rows, columns) == columns + rows * (columns + 1)

\* createEmptyTable at time t, drawing ids n .. n + TableIds(rows, columns) - 1
CreateEmptyTable(rows, columns, hasHeaderRow, n, t) ==
  [version |-> "1.0",
   columns |-> [j \in 1..columns |-> CreateEmptyColumn(n + j - 1)],
   rows |-> [i \in 1..rows |->
              CreateEmptyRow(columns, hasHeaderRow /\ i = 1,
                             n + columns + (i - 1) * (columns + 1))],
   settings |-> [hasHeaderRow |-> hasHeaderRow,
                 hasBorders |-> TRUE,
                 isStriped |-> FALSE,
                 defaultCellFormat |-> DefaultFormat],
   metadata |-> [created |-> ISO(t), modified |-> ISO(t)]]

\* validateTableData on a typed in-memory value (what handleSave passes)
ValidateTableData(data) == ValidateOutcome(LiftTable(data)) = "true"

\* The try block of parseTableData: "throw" when JSON.parse or validateTableData
\* throws, "return" otherwise.
ParseTry(text) ==
  IF ~Has(text, "json") THEN "throw"
  ELSE IF ValidateOutcome(text.json) = "throw" THEN "throw"
  ELSE "return"

\* Faulty variant of parseTableData: no catch block.
Rethrow(text) == ParseTry(text)

\* How parseTableData completes: its catch block returns.
ParseCompletion(text) == IF ParseTry(text) = "throw" THEN "return" ELSE ParseTry(text)

\* parseTableData: null when JSON.parse throws, when validation fails or throws
ParseTableData(text) ==
  IF ~Has(text, "json") THEN null
  ELSE IF ValidateOutcome(text.json) = "true" THEN Some(Lower(text.json))
  ELSE null

\* Faulty variant of serializeTableData: the version field is not written.
SerializeWithoutVersion(data, t) ==
  JsonText(LiftTable([k \in DOMAIN data \ {"version"} |-> data[k]]))

\* Faulty variant of serializeTableData: the document is written as it is.
SerializeAsIs(data, t) == JsonText(LiftTable(data))

\* serializeTableData at time t
SerializeTableData(data, t) ==
  LET updatedData ==
        Spread(data, "metadata",
               Spread(IF Has(data, "metadata") THEN data.metadata ELSE EmptyObject,
                      "modified", ISO(t)))
  IN JsonText(LiftTable(updatedData))

\* ------------------------------------------ JS array helpers (0-based index)
\* [...a].splice(index, 0, x)
InsertAt(a, index, x) == SubSeq(a, 1, index) \o <<x>> \o SubSeq(a, index + 1, Len(a))

\* a.filter((_, i) => i !== index)
RemoveAt(a, index) == SubSeq(a, 1, index) \o SubSeq(a, index + 2, Len(a))

\* [a[i], a[j]] = [a[j], a[i]] on a copy
Swap(a, i, j) == [a EXCEPT ![i + 1] = a[j + 1], ![j + 1] = a[i + 1]]

\* row.isHeader as a condition (undefined is falsy)
IsHeader(row) == Has(row, "isHeader") /\ row.isHeader

\* ------------------------------------------- table-builder.tsx: Grid Editor
\* Each handler is given the `data` prop and returns null when it returns without
\* calling onChange, and the document it passes to onChange otherwise. A handler
\* that creates rows, columns or cells draws ids from n on.

\* Faulty variant of handleAddRow: the new row is a copy of the last one.
AddRowCopy(data, n) ==
  Some([data EXCEPT
          !.rows = Append(@, IF Len(@) = 0
                             THEN CreateEmptyRow(Len(data.columns), FALSE, n)
                             ELSE [@[Len(@)] EXCEPT !.isHeader = FALSE])])

HandleAddRow(data, n) ==
  Some([data EXCEPT !.rows = Append(@, CreateEmptyRow(Len(data.columns), FALSE, n))])

\* Faulty variant of handleInsertRowAfter: splice(index, 0, newRow).
InsertRowBefore(data, index, n) ==
  Some([data EXCEPT
          !.rows = InsertAt(@, index, CreateEmptyRow(Len(data.columns), FALSE, n))])

HandleInsertRowAfter(data, index, n) ==
  Some([data EXCEPT
          !.rows = InsertAt(@, index + 1, CreateEmptyRow(Len(data.columns), FALSE, n))])

\* Faulty variant of handleRemoveRow: no check of the row count.
RemoveRowAlways(data, index) == Some([data EXCEPT !.rows = RemoveAt(@, index)])

HandleRemoveRow(data, index) ==
  IF Len(data.rows) <= 1 THEN null
  ELSE Some([data EXCEPT !.rows = RemoveAt(@, index)])

\* Faulty variant of handleMoveRowUp: at index 0 the document is passed on as it is.
MoveRowUpUnguarded(data, index) ==
  Some(IF index = 0 THEN data ELSE [data EXCEPT !.rows = Swap(@, index - 1, index)])

HandleMoveRowUp(data, index) ==
  IF index = 0 THEN null
  ELSE Some([data EXCEPT !.rows = Swap(@, index - 1, index)])

\* Faulty variant of handleMoveRowDown: the row goes to the end.
MoveRowDownToEnd(data, index) ==
  IF index = Len(data.rows) - 1 THEN null
  ELSE Some([data EXCEPT !.rows = Append(RemoveAt(@, index), @[index + 1])])

HandleMoveRowDown(data, index) ==
  IF index = Len(data.rows) - 1 THEN null
  ELSE Some([data EXCEPT !.rows = Swap(@, index, index + 1)])

\* Faulty variant of handleAddColumn: the column is added, the rows keep their cells.
AppendColumnOnly(data, n) ==
  Some([data EXCEPT !.columns = Append(@, CreateEmptyColumn(n))])

\* draws n for the column, then one id per row for its new cell
HandleAddColumn(data, n) ==
  Some([data EXCEPT
          !.columns = Append(@, CreateEmptyColumn(n)),
          !.rows = [i \in 1..Len(@) |->
                     [@[i] EXCEPT !.cells = Append(@, CreateEmptyCell(n + i))]]])

\* Faulty variant of handleInsertColumnAfter: splice(index, 0, ...).
InsertColumnBefore(data, index, n) ==
  Some([data EXCEPT
          !.columns = InsertAt(@, index, CreateEmptyColumn(n)),
          !.rows = [i \in 1..Len(@) |->
                     [@[i] EXCEPT !.cells = InsertAt(@, index, CreateEmptyCell(n + i))]]])

HandleInsertColumnAfter(data, index, n) ==
  Some([data EXCEPT
          !.columns = InsertAt(@, index + 1, CreateEmptyColumn(n)),
          !.rows = [i \in 1..Len(@) |->
                     [@[i] EXCEPT !.cells = InsertAt(@, index + 1, CreateEmptyCell(n + i))]]])

\* Faulty variant of handleRemoveColumn: the rows keep all their cells.
RemoveColumnKeepsCells(data, index) ==
  IF Len(data.columns) <= 1 THEN null
  ELSE Some([data EXCEPT !.columns = RemoveAt(@, index)])

\* Faulty variant of handleRemoveColumn: every row loses its last cell.
RemoveColumnLastCell(data, index) ==
  IF Len(data.columns) <= 1 THEN null
  ELSE Some([data EXCEPT
               !.columns = RemoveAt(@, index),
               !.rows = [i \in 1..Len(@) |->
                          [@[i] EXCEPT !.cells = RemoveAt(@, Len(@) - 1)]]])

HandleRemoveColumn(data, index) ==
  IF Len(data.columns) <= 1 THEN null
  ELSE Some([data EXCEPT
               !.columns = RemoveAt(@, index),
               !.rows = [i \in 1..Len(@) |->
                          [@[i] EXCEPT !.cells = RemoveAt(@, index)]]])

\* Faulty variant of handleMoveColumnLeft: the rows are left as they are.
MoveColumnLeftOnly(data, index) ==
  IF index = 0 THEN null
  ELSE Some([data EXCEPT !.columns = Swap(@, index - 1, index)])

HandleMoveColumnLeft(data, index) ==
  IF index = 0 THEN null
  ELSE Some([data EXCEPT
               !.columns = Swap(@, index - 1, index),
               !.rows = [i \in 1..Len(@) |->
                          [@[i] EXCEPT !.cells = Swap(@, index - 1, index)]]])

HandleMoveColumnRight(data, index) ==
  IF index = Len(data.columns) - 1 THEN null
  ELSE Some([data EXCEPT
               !.columns = Swap(@, index, index + 1),
               !.rows = [i \in 1..Len(@) |->
                          [@[i] EXCEPT !.cells = Swap(@, index, index + 1)]]])

\* Faulty variant of handleCellChange: the cell is built anew around the text.
CellChangeResetsFormat(data, rowIndex, cellIndex, newContent) ==
  Some([data EXCEPT
          !.rows[rowIndex + 1].cells[cellIndex + 1] =
            [id |-> @.id, content |-> newContent, format |-> DefaultFormat]])

HandleCellChange(data, rowIndex, cellIndex, newContent) ==
  Some([data EXCEPT !.rows[rowIndex + 1].cells[cellIndex + 1].content = newContent])

\* Faulty variant of handleToggleHeader: hasHeaderRow follows the toggled row.
ToggleHeaderSetsFlag(data, rowIndex) ==
  LET updatedRows ==
        [data.rows EXCEPT
           ![rowIndex + 1] = Spread(@, "isHeader", ~IsHeader(@))]
      settings == IF Has(data, "settings") THEN data.settings ELSE EmptyObject
  IN Some(Spread([data EXCEPT !.rows = updatedRows], "settings",
                 Spread(settings, "hasHeaderRow", IsHeader(updatedRows[rowIndex + 1]))))

HandleToggleHeader(data, rowIndex) ==
  LET updatedRows ==
        [data.rows EXCEPT
           ![rowIndex + 1] = Spread(@, "isHeader", ~IsHeader(@))]
      settings == IF Has(data, "settings") THEN data.settings ELSE EmptyObject
  IN Some(Spread([data EXCEPT !.rows = updatedRows], "settings",
                 Spread(settings, "hasHeaderRow",
                        \E i \in 1..Len(updatedRows) : IsHeader(updatedRows[i]))))

HandleCellFormatChange(data, rowIndex, cellIndex, newFormat) ==
  Some([data EXCEPT
          !.rows[rowIndex + 1].cells[cellIndex + 1] = Spread(@, "format", newFormat)])

\* Faulty variant of getSelectedCellData: an index past the end is taken as the
\* last one.
SelectedCellClamped(data, selected) ==
  IF selected = null THEN null
  ELSE LET row == data.rows[Min({selected[1].rowIndex, Len(data.rows) - 1}) + 1]
       IN Some(row.cells[Min({selected[1].cellIndex, Len(row.cells) - 1}) + 1])

\* getSelectedCellData: data.rows[r]?.cells[c], null when there is no such cell
GetSelectedCellData(data, selected) ==
  IF selected = null THEN null
  ELSE IF selected[1].rowIndex >= Len(data.rows) THEN null
  ELSE IF selected[1].cellIndex >= Len(data.rows[selected[1].rowIndex + 1].cells) THEN null
  ELSE Some(data.rows[selected[1].rowIndex + 1].cells[selected[1].cellIndex + 1])

\* --------------------------------------- cell-format-toolbar.tsx: Format Toolbar
CellAlignment == {"left", "center", "right"}
CellVerticalAlignment == {"top", "middle", "bottom"}
FontWeight == {"normal", "medium", "semibold", "bold"}

\* currentFormat = format || { left, middle, normal, wrap: true }
CurrentFormat(cell) == IF Has(cell, "format") THEN cell.format ELSE DefaultFormat

HandleAlignChange(cell, align) == Spread(CurrentFormat(cell), "align", align)

HandleVerticalAlignChange(cell, verticalAlign) ==
  Spread(CurrentFormat(cell), "verticalAlign", verticalAlign)

HandleFontWeightChange(cell, fontWeight) ==
  Spread(CurrentFormat(cell), "fontWeight", fontWeight)

\* ------------------------------------------------------- the host's field
\* What client.getValue() resolves to (Promise<any>): null, a number, or a string.
HNull == [t |-> "null"]
HNum(n) == [t |-> "num", num |-> n]
HText(text) == [t |-> "string", text |-> text]

\* !fieldValue
HostFalsy(value) ==
  \/ value.t = "null"
  \/ value.t = "num" /\ value.num = 0
  \/ value.t = "string" /\ EmptyString(value.text)

\* A table this editor saved earlier (its timestamps are before the clock's
\* start): 2 x 1, header row, every optional field set.
SavedTable ==
  [version |-> "1.0",
   columns |-> <<[id |-> "c1", width |-> "auto"]>>,
   rows |-> <<[id |-> "r1", isHeader |-> TRUE,
               cells |-> <<[id |-> "a1", content |-> "x", format |-> DefaultFormat]>>],
              [id |-> "r2", isHeader |-> FALSE,
               cells |-> <<[id |-> "b1", content |-> "",
                            format |-> [DefaultFormat EXCEPT !.align = "right"]]>>]>>,
   settings |-> [hasHeaderRow |-> TRUE, hasBorders |-> TRUE, isStriped |-> FALSE,
                 defaultCellFormat |-> DefaultFormat],
   metadata |-> [created |-> ISO(-2), modified |-> ISO(-1)]]

\* A table written by another tool: 1 x 2, no settings, no metadata, no isHeader,
\* one cell without format and one with a partial format of an unlisted align.
ForeignTable ==
  [version |-> "1.0",
   columns |-> <<[id |-> "c1"], [id |-> "c2", label |-> "B"]>>,
   rows |-> <<[id |-> "r1",
               cells |-> <<[id |-> "a1", content |-> "x"],
                           [id |-> "a2", content |-> "",
                            format |-> [align |-> "justify"]]>>]>>]

\* A table with no rows and no columns, which validateTableData accepts.
EmptyGrid == [version |-> "1.0", columns |-> <<>>, rows |-> <<>>]

\* JSON that validateTableData rejects: a row with one cell under two columns.
RaggedJson ==
  JObj([version |-> JStr("1.0"),
        columns |-> JArr(<<JObj([id |-> JStr("c1")]), JObj([id |-> JStr("c2")])>>),
        rows |-> JArr(<<JObj([id |-> JStr("r1"),
                              cells |-> JArr(<<JObj([id |-> JStr("a1"),
                                                     content |-> JStr("")])>>)])>>)])

\* JSON on which validateTableData throws: a null row.
NullRowJson ==
  JObj([version |-> JStr("1.0"), columns |-> JArr(<<>>), rows |-> JArr(<<JNull>>)])

ValidTexts ==
  {JsonText(LiftTable(SavedTable)), JsonText(LiftTable(ForeignTable)),
   JsonText(LiftTable(EmptyGrid))}

InvalidTexts ==
  {RawText(<<"n", "o", "t", " ", "j", "s", "o", "n">>),
   JsonText(RaggedJson), JsonText(NullRowJson), JsonText(JNum(7))}

BlankTexts == {RawText(<<>>), RawText(<<" ", "\n">>)}

\* The host holds a table.
StoredValues == {HText(text) : text \in ValidTexts}

HostValues ==
  {HNull, HNum(7)} \cup StoredValues
    \cup {HText(text) : text \in InvalidTexts \cup BlankTexts}

\* What a host call rejects with: a CoreError (an Error with its message), or a
\* value that is no Error.
HostRejections ==
  {[isError |-> TRUE, message |-> "Request timed out"], [isError |-> FALSE]}

\* Cell text a user types.
Texts == {"", "x"}

\* ----------------------------------------------------------------- state
VARIABLES
  tableData,        \* GridComposer: TableData | null
  originalData,     \* GridComposer: string | null, the snapshot
  isDirty,
  isLoading,
  isSaving,
  error,            \* string | null
  successMessage,   \* string | null
  selectedCell,     \* TableBuilder: {rowIndex, cellIndex} | null
  getValueCall,     \* TRUE while loadInitialData awaits client.getValue()
  setValueCalls,    \* the handleSave calls awaiting client.setValue(jsonData, true)
  now,              \* the clock
  nextId,           \* ids drawn from crypto.randomUUID() so far, plus one
  edits,            \* Grid Editor events so far
  storedData,       \* history: the document last loaded or last successfully saved
  changedInFlight,  \* history: onChange ran since the outstanding save began
  raced,            \* history: onChange ever ran while a save was outstanding
  cellEditor,       \* EditableCell in Edit mode: {rowIndex, cellIndex, editValue} | null
  lastKey,          \* history: the last key handleKeyDown got, and editValue and value then
  probe             \* a call of a Document Model function on its own, or null

vars ==
  <<tableData, originalData, isDirty, isLoading, isSaving, error, successMessage,
    selectedCell, getValueCall, setValueCalls, now, nextId, edits, storedData,
    changedInFlight, raced, cellEditor, lastKey, probe>>

\* every variable but probe
editor ==
  <<tableData, originalData, isDirty, isLoading, isSaving, error, successMessage,
    selectedCell, getValueCall, setValueCalls, now, nextId, edits, storedData,
    changedInFlight, raced, cellEditor, lastKey>>

controller == <<originalData, isLoading, isSaving, error, getValueCall, setValueCalls,
                storedData, probe>>

\* GridComposer and TableBuilder as first rendered
EditorInit ==
  /\ tableData = null
  /\ originalData = null
  /\ isDirty = FALSE
  /\ isLoading = TRUE
  /\ isSaving = FALSE
  /\ error = null
  /\ successMessage = null
  /\ selectedCell = null
  /\ getValueCall = TRUE
  /\ setValueCalls = <<>>
  /\ now = 0
  /\ nextId = 1
  /\ edits = 0
  /\ storedData = null
  /\ changedInFlight = FALSE
  /\ raced = FALSE
  /\ cellEditor = null
  /\ lastKey = null

Init == EditorInit /\ probe = null

\* The clock advances between two events. Time is counted from the load: what
\* passes before getValue answers changes no comparison of two timestamps.
Tick ==
  /\ ~getValueCall
  /\ now < MaxTime
  /\ now' = now + 1
  /\ UNCHANGED <<tableData, originalData, isDirty, isLoading, isSaving, error,
                 successMessage, selectedCell, getValueCall, setValueCalls, nextId,
                 edits, storedData, changedInFlight, raced, cellEditor, lastKey, probe>>

\* ------------------------------------------ table-forge.tsx: loadInitialData
InvalidDataMessage == "Existing data was invalid. Starting with a new table."
\* Faulty variant of the catch block's message: the invalid-data warning again.
SameWarning == "Existing data was invalid. Starting with a new table."
LoadFailedMessage == "Failed to load table data. Starting with a new table."

\* Faulty variant of the try block's condition: no fieldValue.trim().
HasTextUntrimmed(fieldValue) ==
  /\ ~HostFalsy(fieldValue)
  /\ fieldValue.t = "string"

\* fieldValue && typeof fieldValue === "string" && fieldValue.trim()
HasText(fieldValue) ==
  /\ ~HostFalsy(fieldValue)
  /\ fieldValue.t = "string"
  /\ ~EmptyString(Trim(fieldValue.text))

\* Faulty variant of the first `if` of the try block: the text is never parsed.
ParsedNothing(fieldValue) == null

\* parsedData after the first `if` of the try block
LoadParsed(fieldValue) ==
  IF HasText(fieldValue) THEN ParseTableData(fieldValue.text) ELSE null

\* Faulty variant of the try block: setError is never called.
NoLoadError(fieldValue) == null

\* the error the try block leaves set
LoadError(fieldValue) ==
  IF HasText(fieldValue) /\ LoadParsed(fieldValue) = null
  THEN Some(InvalidDataMessage) ELSE null

\* client.getValue() resolves to fieldValue: the rest of the try block, and finally
LoadInitialDataResolved(fieldValue) ==
  /\ getValueCall
  /\ getValueCall' = FALSE
  /\ LET parsed == LoadParsed(fieldValue)
         parsedData ==
           IF parsed = null
           THEN CreateEmptyTable(FallbackRows, FallbackColumns, TRUE, nextId, now)
           ELSE parsed[1]
     IN /\ error' = LoadError(fieldValue)
        /\ tableData' = Some(parsedData)
        /\ originalData' = Some(SerializeTableData(parsedData, now))
        /\ storedData' = Some(parsedData)
        /\ nextId' = IF parsed = null
                     THEN nextId + TableIds(FallbackRows, FallbackColumns) ELSE nextId
  /\ isDirty' = FALSE
  /\ isLoading' = FALSE
  /\ UNCHANGED <<isSaving, successMessage, selectedCell, setValueCalls, now, edits,
                 changedInFlight, raced, cellEditor, lastKey, probe>>

\* Faulty variant of the rejected load: the catch block makes no table.
LoadRejectedNoFallback ==
  /\ getValueCall
  /\ getValueCall' = FALSE
  /\ error' = Some(LoadFailedMessage)
  /\ isLoading' = FALSE
  /\ UNCHANGED <<tableData, originalData, isDirty, isSaving, successMessage,
                 selectedCell, setValueCalls, now, nextId, edits, storedData,
                 changedInFlight, raced, cellEditor, lastKey, probe>>

\* client.getValue() rejects: the catch block, and finally
LoadInitialDataRejected ==
  /\ getValueCall
  /\ getValueCall' = FALSE
  /\ error' = Some(LoadFailedMessage)
  /\ LET emptyTable ==
           CreateEmptyTable(FallbackRows, FallbackColumns, TRUE, nextId, now)
     IN /\ tableData' = Some(emptyTable)
        /\ originalData' = Some(SerializeTableData(emptyTable, now))
        /\ storedData' = Some(emptyTable)
  /\ nextId' = nextId + TableIds(FallbackRows, FallbackColumns)
  /\ isLoading' = FALSE
  /\ UNCHANGED <<isDirty, isSaving, successMessage, selectedCell, setValueCalls, now,
                 edits, changedInFlight, raced, cellEditor, lastKey, probe>>

\* ------------------------------------------ table-forge.tsx: handleTableChange
\* isDirty as handleTableChange computes it at time t
DirtyAfterChange(newData, t) == Some(SerializeTableData(newData, t)) # originalData

\* Faulty variant of handleTableChange: the snapshot follows the document.
TableChangeMovesSnapshot(newData) ==
  /\ tableData' = Some(newData)
  /\ originalData' = Some(SerializeTableData(newData, now))
  /\ isDirty' = FALSE
  /\ successMessage' = null
  /\ changedInFlight' = (changedInFlight \/ isSaving)
  /\ raced' = (raced \/ isSaving)
  /\ UNCHANGED <<isLoading, isSaving, error, getValueCall, setValueCalls, storedData,
                 probe>>

HandleTableChange(newData) ==
  /\ tableData' = Some(newData)
  /\ isDirty' = DirtyAfterChange(newData, now)
  /\ successMessage' = null
  /\ changedInFlight' = (changedInFlight \/ isSaving)
  /\ raced' = (raced \/ isSaving)
  /\ UNCHANGED controller

\* The TableBuilder is rendered: loading is over and there is a document.
GridShown == ~isLoading /\ tableData # null

data == tableData[1]

RowIndices == 0..(Len(data.rows) - 1)
ColumnIndices == 0..(Len(data.columns) - 1)

\* Faulty variant of a Grid Editor event: a change of the document drops the
\* selection.
EmitClearsSelection(result, ids) ==
  IF result = null
  THEN UNCHANGED vars
  ELSE /\ HandleTableChange(result[1])
       /\ nextId' = nextId + ids
       /\ edits' = edits + 1
       /\ selectedCell' = null
       /\ UNCHANGED <<now, cellEditor, lastKey>>

\* A Grid Editor event whose handler returned `result` after drawing `ids` ids.
Emit(result, ids) ==
  IF result = null
  THEN UNCHANGED vars
  ELSE /\ HandleTableChange(result[1])
       /\ nextId' = nextId + ids
       /\ edits' = edits + 1
       /\ UNCHANGED <<selectedCell, now, cellEditor, lastKey>>

AddRow ==
  /\ GridShown /\ edits < MaxEdits
  /\ Emit(HandleAddRow(data, nextId), 1 + Len(data.columns))

InsertRowAfter ==
  /\ GridShown /\ edits < MaxEdits
  /\ \E index \in RowIndices :
       Emit(HandleInsertRowAfter(data, index, nextId), 1 + Len(data.columns))

RemoveRow ==
  /\ GridShown /\ edits < MaxEdits
  /\ \E index \in RowIndices : Emit(HandleRemoveRow(data, index), 0)

MoveRowUp ==
  /\ GridShown /\ edits < MaxEdits
  /\ \E index \in RowIndices : Emit(HandleMoveRowUp(data, index), 0)

MoveRowDown ==
  /\ GridShown /\ edits < MaxEdits
  /\ \E index \in RowIndices : Emit(HandleMoveRowDown(data, index), 0)

ToggleHeader ==
  /\ GridShown /\ edits < MaxEdits
  /\ \E index \in RowIndices : Emit(HandleToggleHeader(data, index), 0)

AddColumn ==
  /\ GridShown /\ edits < MaxEdits
  /\ Emit(HandleAddColumn(data, nextId), 1 + Len(data.rows))

InsertColumnAfter ==
  /\ GridShown /\ edits < MaxEdits
  /\ \E index \in ColumnIndices :
       Emit(HandleInsertColumnAfter(data, index, nextId), 1 + Len(data.rows))

RemoveColumn ==
  /\ GridShown /\ edits < MaxEdits
  /\ \E index \in ColumnIndices : Emit(HandleRemoveColumn(data, index), 0)

MoveColumnLeft ==
  /\ GridShown /\ edits < MaxEdits
  /\ \E index \in ColumnIndices : Emit(HandleMoveColumnLeft(data, index), 0)

MoveColumnRight ==
  /\ GridShown /\ edits < MaxEdits
  /\ \E index \in ColumnIndices : Emit(HandleMoveColumnRight(data, index), 0)

\* An EditableCell commits text that differs from the cell's content
\* (editable-cell.tsx:57-62) and the td's onChange passes it on.
SetCellContent ==
  /\ GridShown /\ edits < MaxEdits
  /\ \E rowIndex \in RowIndices :
       \E cellIndex \in 0..(Len(data.rows[rowIndex + 1].cells) - 1) :
         \E newContent \in Texts :
           /\ newContent # data.rows[rowIndex + 1].cells[cellIndex + 1].content
           /\ Emit(HandleCellChange(data, rowIndex, cellIndex, newContent), 0)

\* td onClick: setSelectedCell({ rowIndex, cellIndex })
SelectCell ==
  /\ GridShown /\ edits < MaxEdits
  /\ \E rowIndex \in RowIndices :
       \E cellIndex \in 0..(Len(data.rows[rowIndex + 1].cells) - 1) :
         /\ selectedCell' = Some([rowIndex |-> rowIndex, cellIndex |-> cellIndex])
         /\ selectedCell' # selectedCell
  /\ edits' = edits + 1
  /\ UNCHANGED <<tableData, originalData, isDirty, isLoading, isSaving, error,
                 successMessage, getValueCall, setValueCalls, now, nextId, storedData,
                 changedInFlight, raced, cellEditor, lastKey, probe>>

\* The toolbar is rendered: selectedCell && selectedCellData
ToolbarShown == GridShown /\ GetSelectedCellData(data, selectedCell) # null

\* The formats the toolbar's controls emit for a cell.
ToolbarFormats(cell) ==
  {HandleAlignChange(cell, a) : a \in CellAlignment}
    \cup {HandleVerticalAlignChange(cell, v) : v \in CellVerticalAlignment}
    \cup {HandleFontWeightChange(cell, w) : w \in FontWeight}

\* A toolbar control is activated: onChange(newFormat) runs handleCellFormatChange
\* with the selected indices.
SetCellFormat ==
  /\ ToolbarShown /\ edits < MaxEdits
  /\ \E newFormat \in ToolbarFormats(GetSelectedCellData(data, selectedCell)[1]) :
       Emit(HandleCellFormatChange(data, selectedCell[1].rowIndex,
                                   selectedCell[1].cellIndex, newFormat), 0)

\* ------------------------------------------------- table-forge.tsx: handleSave
InvalidStructureMessage == "Invalid table data structure"
SaveFailedMessage == "Failed to save table data"
SavedMessage == "Table saved successfully!"

\* Faulty variant of the buttons' guard: `disabled={!isDirty}`.
DirtyOnly == isDirty

\* Faulty variant of the buttons' guard: enabled while a save is under way.
EnabledWhileSaving == isDirty \/ isSaving

\* `disabled={!isDirty || isSaving}` of the Save and Cancel buttons
ButtonsEnabled == isDirty /\ ~isSaving

\* Faulty variant of handleSave: no setError(null).
HandleSaveKeepsError ==
  /\ GridShown /\ ButtonsEnabled
  /\ successMessage' = null
  /\ changedInFlight' = FALSE
  /\ isSaving' = TRUE
  /\ setValueCalls' =
       Append(setValueCalls,
              [jsonData |-> SerializeTableData(data, now), tableData |-> data])
  /\ UNCHANGED <<tableData, originalData, isDirty, isLoading, error, selectedCell,
                 getValueCall, now, nextId, edits, storedData, raced,
                 cellEditor, lastKey, probe>>

\* handleSave up to its await: returns at once without a document; throws into
\* its own catch when validation fails; otherwise calls client.setValue.
HandleSave ==
  /\ GridShown /\ ButtonsEnabled
  /\ successMessage' = null
  /\ changedInFlight' = FALSE
  /\ IF ~ValidateTableData(data)
     THEN /\ error' = Some(InvalidStructureMessage)
          /\ isSaving' = FALSE
          /\ setValueCalls' = setValueCalls
     ELSE /\ error' = null
          /\ isSaving' = TRUE
          /\ setValueCalls' =
               Append(setValueCalls,
                      [jsonData |-> SerializeTableData(data, now), tableData |-> data])
  /\ UNCHANGED <<tableData, originalData, isDirty, isLoading, selectedCell,
                 getValueCall, now, nextId, edits, storedData, raced,
                 cellEditor, lastKey, probe>>

\* Faulty variant of the resolved save: the snapshot is serialized anew from the
\* document in memory.
SetValueResolvedAnew ==
  /\ setValueCalls # <<>>
  /\ originalData' = Some(SerializeTableData(data, now))
  /\ storedData' = Some(Head(setValueCalls).tableData)
  /\ setValueCalls' = Tail(setValueCalls)
  /\ isDirty' = FALSE
  /\ successMessage' = Some(SavedMessage)
  /\ isSaving' = FALSE
  /\ changedInFlight' = FALSE
  /\ UNCHANGED <<tableData, isLoading, error, selectedCell, getValueCall, now, nextId,
                 edits, raced, cellEditor, lastKey, probe>>

\* client.setValue resolves: the rest of the try block, and finally
SetValueResolved ==
  /\ setValueCalls # <<>>
  /\ LET call == Head(setValueCalls)
     IN /\ originalData' = Some(call.jsonData)
        /\ storedData' = Some(call.tableData)
  /\ setValueCalls' = Tail(setValueCalls)
  /\ isDirty' = FALSE
  /\ successMessage' = Some(SavedMessage)
  /\ isSaving' = FALSE
  /\ changedInFlight' = FALSE
  /\ UNCHANGED <<tableData, isLoading, error, selectedCell, getValueCall, now, nextId,
                 edits, raced, cellEditor, lastKey, probe>>

\* Faulty variant of the catch block's message: always empty.
NoMessage(err) == ""

\* err instanceof Error ? err.message : "Failed to save table data"
SaveErrorMessage(err) == IF err.isError THEN err.message ELSE SaveFailedMessage

\* Faulty variant of the rejected save: the catch block without the finally block.
SetValueRejectedNoFinally ==
  /\ setValueCalls # <<>>
  /\ setValueCalls' = Tail(setValueCalls)
  /\ \E err \in HostRejections : error' = Some(SaveErrorMessage(err))
  /\ changedInFlight' = FALSE
  /\ UNCHANGED <<tableData, originalData, isDirty, isLoading, isSaving, successMessage,
                 selectedCell, getValueCall, now, nextId, edits, storedData, raced,
                 cellEditor, lastKey, probe>>

\* client.setValue rejects with err: the catch block, and finally
SetValueRejected ==
  /\ setValueCalls # <<>>
  /\ setValueCalls' = Tail(setValueCalls)
  /\ \E err \in HostRejections : error' = Some(SaveErrorMessage(err))
  /\ isSaving' = FALSE
  /\ changedInFlight' = FALSE
  /\ UNCHANGED <<tableData, originalData, isDirty, isLoading, successMessage,
                 selectedCell, getValueCall, now, nextId, edits, storedData, raced,
                 cellEditor, lastKey, probe>>

\* ----------------------------------------------- table-forge.tsx: handleCancel
\* Faulty variant of handleCancel: the flags are reset, the document is kept.
CancelKeepsDocument ==
  /\ GridShown /\ ButtonsEnabled
  /\ isDirty' = FALSE
  /\ error' = null
  /\ successMessage' = null
  /\ UNCHANGED <<tableData, originalData, isLoading, isSaving, selectedCell,
                 getValueCall, setValueCalls, now, nextId, edits, storedData,
                 changedInFlight, raced, cellEditor, lastKey, probe>>

HandleCancel ==
  /\ GridShown /\ ButtonsEnabled
  /\ IF originalData = null \/ ParseTableData(originalData[1]) = null
     THEN UNCHANGED <<tableData, isDirty, error, successMessage, cellEditor, lastKey, probe>>
     ELSE /\ tableData' = ParseTableData(originalData[1])
          /\ isDirty' = FALSE
          /\ error' = null
          /\ successMessage' = null
  /\ UNCHANGED <<originalData, isLoading, isSaving, selectedCell, getValueCall,
                 setValueCalls, now, nextId, edits, storedData, changedInFlight, raced,
                 cellEditor, lastKey, probe>>

GridEdit ==
  \/ AddRow \/ InsertRowAfter \/ RemoveRow \/ MoveRowUp \/ MoveRowDown \/ ToggleHeader
  \/ AddColumn \/ InsertColumnAfter \/ RemoveColumn \/ MoveColumnLeft \/ MoveColumnRight
  \/ SetCellContent \/ SelectCell \/ SetCellFormat

Sync == Tick \/ HandleSave \/ SetValueResolved \/ SetValueRejected \/ HandleCancel

\* The whole editor, whatever the host answers.
Next ==
  \/ \E fieldValue \in HostValues : LoadInitialDataResolved(fieldValue)
  \/ LoadInitialDataRejected
  \/ GridEdit
  \/ Sync

Spec == Init /\ [][Next]_vars

\* The host answers every call: the promise of getValue, and of each setValue,
\* is settled at some time.
GetValueSettled ==
  \/ \E fieldValue \in HostValues : LoadInitialDataResolved(fieldValue)
  \/ LoadInitialDataRejected

SetValueSettled == SetValueResolved \/ SetValueRejected

\* The load, whatever the host answers, text typed into cells, Save and Cancel.
NextSync ==
  \/ GetValueSettled
  \/ SetCellContent
  \/ Sync

SpecSync == Init /\ [][NextSync]_vars

\* The same on a host that answers every call.
SpecLive ==
  /\ Init /\ [][NextSync]_vars
  /\ WF_vars(GetValueSettled)
  /\ WF_vars(SetValueSettled)

\* The whole editor on a host that holds a table.
NextStored ==
  \/ \E fieldValue \in StoredValues : LoadInitialDataResolved(fieldValue)
  \/ GridEdit
  \/ Sync

SpecStored == Init /\ [][NextStored]_vars

\* The load, whatever the host answers, and the Grid Editor on what it leaves.
NextGrid ==
  \/ \E fieldValue \in HostValues : LoadInitialDataResolved(fieldValue)
  \/ LoadInitialDataRejected
  \/ GridEdit

SpecGrid == Init /\ [][NextGrid]_vars

\* ------------------------------------------------------- editable-cell.tsx
\* The value prop of the EditableCell at (rowIndex, cellIndex): cell.content
CellValue(rowIndex, cellIndex) == data.rows[rowIndex + 1].cells[cellIndex + 1].content

\* The EditableCell in Edit mode, and its value prop
editing == cellEditor[1]
valueProp == CellValue(editing.rowIndex, editing.cellIndex)

\* The keys pressed in the input: the two handleKeyDown names, and one other.
Keys == {"Enter", "Escape", "a"}

\* A click on a cell in Display mode: handleStartEdit, and the td's onClick as
\* the click bubbles.
HandleStartEdit ==
  /\ GridShown /\ edits < MaxEdits
  /\ cellEditor = null
  /\ \E rowIndex \in RowIndices :
       \E cellIndex \in 0..(Len(data.rows[rowIndex + 1].cells) - 1) :
         /\ cellEditor' = Some([rowIndex |-> rowIndex, cellIndex |-> cellIndex,
                                editValue |-> CellValue(rowIndex, cellIndex)])
         /\ selectedCell' = Some([rowIndex |-> rowIndex, cellIndex |-> cellIndex])
  /\ UNCHANGED <<tableData, originalData, isDirty, isLoading, isSaving, error,
                 successMessage, getValueCall, setValueCalls, now, nextId, edits,
                 storedData, changedInFlight, raced, lastKey, probe>>

\* Typing in the input: setEditValue(e.target.value)
SetEditValue ==
  /\ cellEditor # null
  /\ \E text \in Texts :
       /\ text # editing.editValue
       /\ cellEditor' = Some([editing EXCEPT !.editValue = text])
  /\ UNCHANGED <<tableData, originalData, isDirty, isLoading, isSaving, error,
                 successMessage, selectedCell, getValueCall, setValueCalls, now, nextId,
                 edits, storedData, changedInFlight, raced, lastKey, probe>>

\* Faulty variant of handleFinishEdit: onChange is called whatever the text.
FinishEditAlways ==
  /\ cellEditor' = null
  /\ HandleTableChange(
       HandleCellChange(data, editing.rowIndex, editing.cellIndex,
                        editing.editValue)[1])
  /\ edits' = edits + 1
  /\ UNCHANGED <<selectedCell, now, nextId>>

HandleFinishEdit ==
  /\ cellEditor' = null
  /\ IF editing.editValue # valueProp
     THEN /\ HandleTableChange(
               HandleCellChange(data, editing.rowIndex, editing.cellIndex,
                                editing.editValue)[1])
          /\ edits' = edits + 1
          /\ UNCHANGED <<selectedCell, now, nextId>>
     ELSE UNCHANGED <<tableData, originalData, isDirty, isLoading, isSaving, error,
                      successMessage, selectedCell, getValueCall, setValueCalls, now,
                      nextId, edits, storedData, changedInFlight, raced, probe>>

\* Faulty variant of handleCancelEdit: the pending text is committed.
CancelEditCommits == HandleFinishEdit

HandleCancelEdit ==
  /\ cellEditor' = null
  /\ UNCHANGED <<tableData, originalData, isDirty, isLoading, isSaving, error,
                 successMessage, selectedCell, getValueCall, setValueCalls, now, nextId,
                 edits, storedData, changedInFlight, raced, probe>>

HandleKeyDown(key) ==
  /\ cellEditor # null
  /\ lastKey' = Some([key |-> key, editValue |-> editing.editValue, value |-> valueProp])
  /\ IF key = "Enter" THEN HandleFinishEdit
     ELSE IF key = "Escape" THEN HandleCancelEdit
     ELSE UNCHANGED <<tableData, originalData, isDirty, isLoading, isSaving, error,
                      successMessage, selectedCell, getValueCall, setValueCalls, now,
                      nextId, edits, storedData, changedInFlight, raced, cellEditor,
                      probe>>

\* The input loses the focus.
HandleBlur ==
  /\ cellEditor # null
  /\ HandleFinishEdit
  /\ UNCHANGED lastKey

\* The load of a stored table, and the Cell Editor on it.
NextCell ==
  \/ \E fieldValue \in StoredValues : LoadInitialDataResolved(fieldValue)
  \/ HandleStartEdit
  \/ SetEditValue
  \/ \E key \in Keys : HandleKeyDown(key)
  \/ HandleBlur

SpecCell == Init /\ [][NextCell]_vars

\* ------------------------------- the Document Model functions called on their own
\* An object with the given <<key, value>> properties.
Obj(props) ==
  JObj([k \in {p[1] : p \in props} |-> (CHOOSE p \in props : p[1] = k)[2]])

\* The ways to write, or leave out, one property.
Optional(key, values) == {{}} \cup {{<<key, v>>} : v \in values}

\* Values tried as a cell, as a column and as a row.
CellProbes ==
  {JNull, JNum(1), JStr("x"),
   Obj({}),
   Obj({<<"id", JStr("a1")>>}),
   Obj({<<"content", JStr("x")>>}),
   Obj({<<"id", JStr("a1")>>, <<"content", JStr("")>>}),
   Obj({<<"id", JStr("")>>, <<"content", JStr("")>>}),
   Obj({<<"id", JNum(7)>>, <<"content", JStr("x")>>}),
   Obj({<<"id", JStr("a1")>>, <<"content", JNum(3)>>}),
   Obj({<<"id", JStr("a1")>>, <<"content", JNull>>}),
   Obj({<<"id", JStr("a1")>>, <<"content", JStr("x")>>,
        <<"format", Obj({<<"align", JStr("justify")>>})>>}),
   Obj({<<"id", JStr("a1")>>, <<"content", JStr("x")>>, <<"format", JNum(5)>>})}

ColumnProbes ==
  {JNull, JNum(1),
   Obj({}),
   Obj({<<"id", JStr("c1")>>}),
   Obj({<<"id", JStr("")>>}),
   Obj({<<"id", JStr("c1")>>, <<"width", JNum(3)>>})}

RowProbes ==
  {JNull, JNum(5), JStr("r"),
   Obj({}),
   Obj({<<"id", JStr("r1")>>}),
   Obj({<<"cells", JArr(<<>>)>>}),
   Obj({<<"id", JStr("")>>, <<"cells", JArr(<<>>)>>}),
   Obj({<<"id", JStr("r1")>>, <<"cells", JStr("x")>>}),
   Obj({<<"id", JStr("r1")>>, <<"cells", JArr(<<>>)>>})}
    \cup {Obj({<<"id", JStr("r1")>>, <<"cells", JArr(<<cell>>)>>}) : cell \in CellProbes}

\* Values tried as a whole document: every way to write version, rows, columns,
\* settings and metadata, and values that are no object.
TableProbes ==
  LET versions == Optional("version", {JStr(""), JStr("1.0"), JNum(1)})
      rows == Optional("rows", {JNull, JStr("x"), JArr(<<>>)}
                                 \cup {JArr(<<row>>) : row \in RowProbes})
      columns == Optional("columns", {JNull, JArr(<<>>)}
                                       \cup {JArr(<<column>>) : column \in ColumnProbes})
      others == {{},
                 {<<"settings", JNum(5)>>, <<"metadata", JNull>>},
                 {<<"settings", Obj({<<"hasHeaderRow", JStr("yes")>>})>>,
                  <<"metadata", Obj({<<"modified", JNum(0)>>})>>}}
  IN {Obj(v \cup r \cup c \cup o) :
        v \in versions, r \in rows, c \in columns, o \in others}
       \cup {JNull, JUndefined, JNum(0), JStr("x"), JBool(TRUE), JArr(<<>>)}

\* Texts tried on parseTableData: texts that are no JSON, and the JSON text of
\* every value above that JSON can write.
TextProbes ==
  {RawText(<<>>), RawText(<<"n", "o", "t", " ", "j", "s", "o", "n">>), RawText(<<"{">>)}
    \cup {JsonText(value) : value \in TableProbes \ {JUndefined}}
    \cup ValidTexts \cup InvalidTexts

\* The calls tried.
Requests ==
  {[op |-> "validate", value |-> value, outcome |-> "none"] : value \in TableProbes}
    \cup {[op |-> "parse", text |-> text, completion |-> "none", parsed |-> null] :
            text \in TextProbes}
    \cup {[op |-> "create", rows |-> rows, columns |-> columns,
           hasHeaderRow |-> hasHeaderRow, table |-> null] :
            rows \in 0..MaxCount, columns \in 0..MaxCount, hasHeaderRow \in BOOLEAN}

InitModel == EditorInit /\ probe \in {Some(request) : request \in Requests}

request == probe[1]

\* validateTableData(value) is called.
ValidateTableDataCall ==
  /\ probe # null /\ request.op = "validate" /\ request.outcome = "none"
  /\ probe' = Some([request EXCEPT !.outcome = ValidateOutcome(request.value)])
  /\ UNCHANGED editor

\* parseTableData(text) is called.
ParseTableDataCall ==
  /\ probe # null /\ request.op = "parse" /\ request.completion = "none"
  /\ probe' = Some([request EXCEPT !.completion = ParseCompletion(request.text),
                                   !.parsed = ParseTableData(request.text)])
  /\ UNCHANGED editor

\* createEmptyTable(rows, columns, hasHeaderRow) is called.
CreateEmptyTableCall ==
  /\ probe # null /\ request.op = "create" /\ request.table = null
  /\ probe' = Some([request EXCEPT
                      !.table = Some(CreateEmptyTable(request.rows, request.columns,
                                                      request.hasHeaderRow, nextId, now))])
  /\ UNCHANGED editor

NextModel == ValidateTableDataCall \/ ParseTableDataCall \/ CreateEmptyTableCall

SpecModel == InitModel /\ [][NextModel]_vars

\* ------------------------------------------------------------ properties
\* What C3, C9 and C10 compare of two documents: columns, rows (with their cells)
\* and settings; the metadata, which every serialization rewrites, is left out.
Content(d) ==
  [columns |-> d.columns,
   rows |-> d.rows,
   settings |-> IF Has(d, "settings") THEN Some(d.settings) ELSE null]

\* The document the snapshot encodes.
SnapshotDocument == ParseTableData(originalData[1])

\* The ids of a document's columns, rows and cells.
IdsOf(d) ==
  {d.columns[j].id : j \in 1..Len(d.columns)}
    \cup {d.rows[i].id : i \in 1..Len(d.rows)}
    \cup UNION {{d.rows[i].cells[j].id : j \in 1..Len(d.rows[i].cells)} :
                 i \in 1..Len(d.rows)}

\* A freshly created 3 x 3 table with a header row: empty cells of the default
\* format, row 0 alone marked header, 15 distinct ids, accepted by validateTableData.
IsFreshTable(d) ==
  /\ Len(d.columns) = 3
  /\ Len(d.rows) = 3
  /\ \A i \in 1..3 :
       /\ Len(d.rows[i].cells) = 3
       /\ d.rows[i].isHeader = (i = 1)
       /\ \A j \in 1..3 :
            /\ d.rows[i].cells[j].content = ""
            /\ d.rows[i].cells[j].format = DefaultFormat
  /\ d.settings.hasHeaderRow
  /\ Cardinality(IdsOf(d)) = 15
  /\ ValidateTableData(d)

\* C1: from every document validateTableData accepts (and from the fallback
\* table), after every sequence of Grid Editor operations, each row of the
\* document has exactly columns.length cells.
RowsMatchColumns ==
  GridShown => \A i \in 1..Len(data.rows) : Len(data.rows[i].cells) = Len(data.columns)

\* C1 case: the other tool's 1 x 2 table after a column and a row were added.
RowsMatchColumnsReached ==
  /\ GridShown
  /\ storedData = Some(ForeignTable)
  /\ Len(data.columns) = 3
  /\ Len(data.rows) = 2

CleanMeansSaved ==
  (GridShown /\ ~isDirty /\ ~isSaving) =>
     Content(data) = Content(SnapshotDocument[1])

\* C4: at most one setValue call is outstanding, isSaving is true exactly while
\* one is, and a call is made only from a state where isDirty is true and isSaving
\* is false.
OneSaveOutstanding ==
  [][/\ Len(setValueCalls') <= 1
     /\ (isSaving' <=> setValueCalls' # <<>>)
     /\ (Len(setValueCalls') > Len(setValueCalls) => isDirty /\ ~isSaving)]_vars

\* C4 case: a save is outstanding on a dirty document, and Save is disabled.
SaveBlockedReached ==
  /\ isSaving
  /\ isDirty
  /\ Len(setValueCalls) = 1
  /\ ~ButtonsEnabled

\* C5: handleSave hands setValue the serialization, made at that moment, of a
\* document validateTableData accepts, and parseTableData accepts that text; when
\* validateTableData rejects the document, no call is made, an error is set, and
\* isDirty and the snapshot stay as they were.
WrittenTextIsValid ==
  [][HandleSave =>
       IF ValidateTableData(data)
       THEN /\ Len(setValueCalls') = Len(setValueCalls) + 1
            /\ LET jsonData == setValueCalls'[Len(setValueCalls')].jsonData
               IN /\ jsonData = SerializeTableData(data, now)
                  /\ ParseTableData(jsonData) # null
                  /\ Content(ParseTableData(jsonData)[1]) = Content(data)
       ELSE /\ setValueCalls' = setValueCalls
            /\ error' # null
            /\ isDirty' = isDirty
            /\ originalData' = originalData]_vars

\* C5 case: the text of an edited document is on its way to the host.
WrittenTextReached ==
  /\ Len(setValueCalls) = 1
  /\ edits > 0
  /\ ParseTableData(setValueCalls[1].jsonData) # null
  /\ Content(setValueCalls[1].tableData) # Content(storedData[1])

\* C6: when getValue resolves to a non-blank string that parseTableData rejects,
\* loading ends with a fresh valid 3 x 3 header table, the non-empty invalid-data
\* warning, and isDirty false.
InvalidDataStartsFresh ==
  [][\A fieldValue \in HostValues :
       (/\ LoadInitialDataResolved(fieldValue)
        /\ HasText(fieldValue)
        /\ ParseTableData(fieldValue.text) = null) =>
          /\ ~isLoading'
          /\ tableData' # null
          /\ IsFreshTable(tableData'[1])
          /\ error' # null
          /\ error'[1] # ""
          /\ ~isDirty']_vars

\* C6 case: loading has just ended on invalid stored data.
InvalidDataReached ==
  /\ ~isLoading
  /\ edits = 0
  /\ error = Some(InvalidDataMessage)
  /\ tableData # null

\* C7: when getValue rejects, loading ends with a fresh valid 3 x 3 table, the
\* snapshot is that table's serialization, isDirty is false, and the warning is
\* non-empty and is not the invalid-data warning.
LoadRejectedStartsFresh ==
  [][LoadInitialDataRejected =>
       /\ ~isLoading'
       /\ tableData' # null
       /\ IsFreshTable(tableData'[1])
       /\ originalData' = Some(SerializeTableData(tableData'[1], now))
       /\ ~isDirty'
       /\ error' # null
       /\ error'[1] # ""
       /\ error' # Some(InvalidDataMessage)]_vars

\* C7 case: loading has just ended on a rejected getValue.
LoadRejectedReached ==
  /\ ~isLoading
  /\ edits = 0
  /\ error = Some(LoadFailedMessage)
  /\ tableData # null

\* C8: when getValue resolves to text that parseTableData accepts, loading ends
\* with the parsed document in memory, its serialization as the snapshot, isDirty
\* false and no error.
ValidDataIsLoaded ==
  [][\A fieldValue \in HostValues :
       (/\ LoadInitialDataResolved(fieldValue)
        /\ HasText(fieldValue)
        /\ ParseTableData(fieldValue.text) # null) =>
          /\ ~isLoading'
          /\ tableData' = ParseTableData(fieldValue.text)
          /\ originalData' = Some(SerializeTableData(tableData'[1], now))
          /\ ~isDirty'
          /\ error' = null]_vars

\* C8 case: loading has just ended on the other tool's table.
ValidDataReached ==
  /\ ~isLoading
  /\ edits = 0
  /\ tableData = Some(ForeignTable)
  /\ error = null

\* C9: Cancel from Dirty puts parseTableData(snapshot) in memory, whose columns,
\* rows, cells and settings are those of the document last loaded or last
\* successfully saved; isDirty becomes false, both messages are cleared, and the
\* snapshot stays as it was.
CancelRestoresSaved ==
  [][HandleCancel =>
       /\ isDirty
       /\ tableData' # null
       /\ tableData' = SnapshotDocument
       /\ Content(tableData'[1]) = Content(storedData[1])
       /\ ~isDirty'
       /\ error' = null
       /\ successMessage' = null
       /\ originalData' = originalData]_vars

\* C9 case: edits to the other tool's table were cancelled (only the reparsed
\* snapshot carries a metadata record there).
CancelReached ==
  /\ GridShown
  /\ storedData = Some(ForeignTable)
  /\ edits > 0
  /\ ~isDirty
  /\ tableData = SnapshotDocument

\* C10 as stated: in a run with no edit during an outstanding save, isDirty is
\* true exactly when the document's columns, rows, cells or settings differ from
\* those of the document the snapshot encodes.
DirtyIffDiffers ==
  (GridShown /\ ~raced) =>
     (isDirty <=> Content(data) # Content(SnapshotDocument[1]))

\* The instant a timestamp denotes.
TimeOf(iso) == CHOOSE t \in (-2)..MaxTime : ISO(t) = iso

\* The metadata record of a document, empty when it has none.
MetadataOf(d) == IF Has(d, "metadata") THEN d.metadata ELSE EmptyObject

Truthy(v) ==
  CASE v.t = "str" -> v.str # ""
    [] v.t = "num" -> v.num # 0
    [] v.t = "bool" -> v.bool
    [] v.t \in {"obj", "arr"} -> TRUE
    [] OTHER -> FALSE

\* The document shape C12 words: a non-null object with a truthy version, array
\* rows and array columns, every row with a truthy id and a cells array as long as
\* columns, every cell with a truthy id and a string content, every column with a
\* truthy id.
WellFormed(v) ==
  /\ v.t = "obj"
  /\ {"version", "rows", "columns"} \subseteq DOMAIN v.obj
  /\ Truthy(v.obj.version)
  /\ v.obj.rows.t = "arr"
  /\ v.obj.columns.t = "arr"
  /\ \A i \in 1..Len(v.obj.rows.arr) :
       LET row == v.obj.rows.arr[i]
       IN /\ row.t = "obj"
          /\ {"id", "cells"} \subseteq DOMAIN row.obj
          /\ Truthy(row.obj.id)
          /\ row.obj.cells.t = "arr"
          /\ Len(row.obj.cells.arr) = Len(v.obj.columns.arr)
          /\ \A j \in 1..Len(row.obj.cells.arr) :
               LET cell == row.obj.cells.arr[j]
               IN /\ cell.t = "obj"
                  /\ {"id", "content"} \subseteq DOMAIN cell.obj
                  /\ Truthy(cell.obj.id)
                  /\ cell.obj.content.t = "str"
  /\ \A j \in 1..Len(v.obj.columns.arr) :
       LET column == v.obj.columns.arr[j]
       IN /\ column.t = "obj"
          /\ "id" \in DOMAIN column.obj
          /\ Truthy(column.obj.id)

\* A value with its settings, its metadata and every cell's format taken away.
StrippedCell(cell) ==
  IF cell.t = "obj" THEN JObj([k \in DOMAIN cell.obj \ {"format"} |-> cell.obj[k]])
  ELSE cell

StrippedRow(row) ==
  IF row.t = "obj" /\ "cells" \in DOMAIN row.obj /\ row.obj.cells.t = "arr"
  THEN JObj([row.obj EXCEPT
               !.cells = JArr([j \in 1..Len(@.arr) |-> StrippedCell(@.arr[j])])])
  ELSE row

Stripped(v) ==
  IF v.t = "obj"
  THEN JObj([k \in DOMAIN v.obj \ {"settings", "metadata"} |->
               IF k = "rows" /\ v.obj[k].t = "arr"
               THEN JArr([i \in 1..Len(v.obj[k].arr) |-> StrippedRow(v.obj[k].arr[i])])
               ELSE v.obj[k]])
  ELSE v

\* C12: validateTableData(value) returns true exactly when value has the shape
\* above, and its verdict is the one it gives on the value without settings,
\* metadata and cell formats.
ValidateVerdict ==
  (probe # null /\ request.op = "validate" /\ request.outcome # "none") =>
     /\ (request.outcome = "true") <=> WellFormed(request.value)
     /\ request.outcome = ValidateOutcome(Stripped(request.value))

\* C12 case: a value with a cell format of an unlisted align was accepted.
ValidateVerdictReached ==
  /\ probe # null
  /\ request.op = "validate"
  /\ request.outcome = "true"
  /\ Stripped(request.value) # request.value
  /\ Len(request.value.obj.rows.arr) = 1

\* C13: parseTableData(text) returns for every text: null when the text is no
\* JSON or its value has not the shape validateTableData accepts (also when the
\* validation throws), and the parsed document otherwise.
ParseNeverThrows ==
  (probe # null /\ request.op = "parse" /\ request.completion # "none") =>
     /\ request.completion = "return"
     /\ (request.parsed = null) <=>
          (~Has(request.text, "json") \/ ~WellFormed(request.text.json))
     /\ request.parsed # null => request.parsed[1] = Lower(request.text.json)

\* C13 case: parseTableData returned null on a text whose validation throws.
ParseNeverThrowsReached ==
  /\ probe # null
  /\ request.op = "parse"
  /\ request.completion = "return"
  /\ request.parsed = null
  /\ Has(request.text, "json")
  /\ ValidateOutcome(request.text.json) = "throw"

\* C14 as stated: validateTableData returns true or false for every value.
ValidateNeverThrows ==
  (probe # null /\ request.op = "validate" /\ request.outcome # "none") =>
     request.outcome \in {"true", "false"}

\* C17: createEmptyTable(rows, columns, hasHeaderRow) returns a document of
\* version "1.0" with that many columns and rows, every row with that many cells
\* of content "", row 0 alone a header when hasHeaderRow and no row otherwise,
\* settings.hasHeaderRow as given, and validateTableData accepts it.
CreatedTableShape ==
  (probe # null /\ request.op = "create" /\ request.table # null) =>
     LET d == request.table[1]
     IN /\ d.version = "1.0"
        /\ Len(d.columns) = request.columns
        /\ Len(d.rows) = request.rows
        /\ \A i \in 1..Len(d.rows) :
             /\ Len(d.rows[i].cells) = request.columns
             /\ \A j \in 1..Len(d.rows[i].cells) : d.rows[i].cells[j].content = ""
             /\ d.rows[i].isHeader = (request.hasHeaderRow /\ i = 1)
        /\ d.settings.hasHeaderRow = request.hasHeaderRow
        /\ ValidateTableData(d)

\* C17 case: createEmptyTable(2, 3, false) has returned.
CreatedTableReached ==
  /\ probe # null
  /\ request.op = "create"
  /\ request.table # null
  /\ request.rows = 2
  /\ request.columns = 3
  /\ ~request.hasHeaderRow

\* C15: on a document with one row no removeRow calls onChange, on a document
\* with one column no removeColumn does, and a document loaded with at least one
\* row and one column keeps at least one row and one column through every
\* sequence of Grid Editor operations.
FloorsHold ==
  GridShown =>
    /\ Len(data.rows) = 1 =>
         \A index \in RowIndices : HandleRemoveRow(data, index) = null
    /\ Len(data.columns) = 1 =>
         \A index \in ColumnIndices : HandleRemoveColumn(data, index) = null
    /\ (Len(storedData[1].rows) >= 1 /\ Len(storedData[1].columns) >= 1) =>
         (Len(data.rows) >= 1 /\ Len(data.columns) >= 1)

\* C15 case: the other tool's 1 x 2 table after a column was removed: one row,
\* one column, both floors in force.
FloorsReached ==
  /\ GridShown
  /\ storedData = Some(ForeignTable)
  /\ Len(data.rows) = 1
  /\ Len(data.columns) = 1

\* C16: moveRowUp(0), moveRowDown(last), moveColumnLeft(0) and
\* moveColumnRight(last) return without calling onChange, on every document.
BoundaryMovesIdle ==
  GridShown =>
    /\ Len(data.rows) > 0 =>
         /\ HandleMoveRowUp(data, 0) = null
         /\ HandleMoveRowDown(data, Len(data.rows) - 1) = null
    /\ Len(data.columns) > 0 =>
         /\ HandleMoveColumnLeft(data, 0) = null
         /\ HandleMoveColumnRight(data, Len(data.columns) - 1) = null

\* C16 case: a changed document with several rows and columns, where each of the
\* four boundary moves has a neighbour it must not take.
BoundaryMovesReached ==
  /\ GridShown
  /\ isDirty
  /\ Len(data.rows) >= 2
  /\ Len(data.columns) >= 2

\* Document e is document d with one new column, and one new empty cell in every
\* row, at 0-based position `at`; everything else is as in d, in the same order.
ColumnInserted(d, e, at) ==
  /\ DOMAIN e = DOMAIN d
  /\ \A k \in DOMAIN d \ {"columns", "rows"} : e[k] = d[k]
  /\ Len(e.columns) = Len(d.columns) + 1
  /\ RemoveAt(e.columns, at) = d.columns
  /\ e.columns[at + 1].id \notin IdsOf(d)
  /\ Len(e.rows) = Len(d.rows)
  /\ \A i \in 1..Len(d.rows) :
       /\ Len(e.rows[i].cells) = Len(d.rows[i].cells) + 1
       /\ e.rows[i].cells[at + 1].content = ""
       /\ e.rows[i].cells[at + 1].id \notin IdsOf(d)
       /\ RemoveAt(e.rows[i].cells, at) = d.rows[i].cells
       /\ [e.rows[i] EXCEPT !.cells = d.rows[i].cells] = d.rows[i]

\* C18: insertColumnAfter(i) puts the new column, and a new empty cell of every
\* row, at index i + 1; addColumn puts them at the end; the columns and cells
\* there were keep their order and values.
ColumnInsertedInPlace ==
  [][/\ InsertColumnAfter =>
          \E index \in ColumnIndices :
            /\ tableData' = HandleInsertColumnAfter(data, index, nextId)
            /\ ColumnInserted(data, tableData'[1], index + 1)
     /\ AddColumn => ColumnInserted(data, tableData'[1], Len(data.columns))]_vars

\* C18 case: a column was inserted between the two columns of the other tool's
\* table.
ColumnInsertedReached ==
  /\ GridShown
  /\ storedData = Some(ForeignTable)
  /\ Len(data.columns) = 3
  /\ data.columns[1] = ForeignTable.columns[1]
  /\ data.columns[3] = ForeignTable.columns[2]

\* The settings record of a document, empty when it has none.
SettingsOf(d) == IF Has(d, "settings") THEN d.settings ELSE EmptyObject

EscapeDiscards ==
  [][/\ HandleKeyDown("Escape") =>
          /\ cellEditor' = null
          /\ UNCHANGED <<tableData, originalData, isDirty, error, successMessage, edits>>
     /\ HandleStartEdit => cellEditor'[1].editValue = valueProp']_vars

\* C20 case: Escape was pressed on a pending text other than the cell's value,
\* the cell was clicked again, and the input shows the cell's value, which is
\* what it was at the Escape.
EscapeDiscardsReached ==
  /\ GridShown
  /\ lastKey # null
  /\ lastKey[1].key = "Escape"
  /\ lastKey[1].editValue # lastKey[1].value
  /\ cellEditor # null
  /\ editing.editValue = lastKey[1].value
  /\ valueProp = lastKey[1].value
  /\ edits = 0

\* C21: Enter or blur in Edit mode returns the cell to Display mode; onChange
\* runs, with the pending text, exactly when that text differs from the cell's
\* value, which is the value the session began with, as it does not change
\* while the cell is in Edit mode; every emission ends the session, so there
\* is at most one per session.
EnterCommitsOnce ==
  [][/\ (cellEditor # null /\ cellEditor' # null) => valueProp' = valueProp
     /\ (HandleKeyDown("Enter") \/ HandleBlur) =>
          /\ cellEditor' = null
          /\ IF editing.editValue # valueProp
             THEN /\ edits' = edits + 1
                  /\ tableData' = HandleCellChange(data, editing.rowIndex,
                                                   editing.cellIndex, editing.editValue)
             ELSE UNCHANGED <<tableData, isDirty, successMessage, edits>>
     /\ edits' # edits => (cellEditor # null /\ cellEditor' = null /\ edits' = edits + 1)]_vars

\* C21 case: Enter was pressed on a text other than the cell's value, the cell
\* is in Display mode and holds that text after one emission.
EnterCommitsReached ==
  /\ GridShown
  /\ lastKey # null
  /\ lastKey[1].key = "Enter"
  /\ lastKey[1].editValue # lastKey[1].value
  /\ cellEditor = null
  /\ selectedCell # null
  /\ CellValue(selectedCell[1].rowIndex, selectedCell[1].cellIndex) = lastKey[1].editValue
  /\ edits = 1

\* C22: whichever cell is selected, every format record a Format Toolbar
\* control emits has align, verticalAlign, fontWeight and wrap.
ToolbarEmitsComplete ==
  ToolbarShown =>
    \A newFormat \in ToolbarFormats(GetSelectedCellData(data, selectedCell)[1]) :
      DOMAIN newFormat = DOMAIN DefaultFormat

\* The document came from createEmptyTable: the load found nothing to parse.
FromCreated == storedData # null /\ IsFreshTable(storedData[1])

\* The ids of row i of a document and of its cells.
RowIds(d, i) == {d.rows[i].id} \cup {d.rows[i].cells[j].id : j \in 1..Len(d.rows[i].cells)}

\* The ids of column j of a document and of the cells at its position.
ColumnIds(d, j) == {d.columns[j].id} \cup {d.rows[i].cells[j].id : i \in 1..Len(d.rows)}

\* The number of columns, rows and cells of a document.
Elements(d) ==
  Len(d.columns) + Len(d.rows)
    + Cardinality(UNION {{<<i, j>> : j \in 1..Len(d.rows[i].cells)} : i \in 1..Len(d.rows)})

\* C23: from a created table on, after every Grid Editor operation the ids of
\* the columns, rows and cells are pairwise distinct; an id the document loses
\* is the id of a removed row or column or of one of its cells, an id it
\* gains was drawn by this operation, and every row that stays keeps the cell
\* ids it had, less the removed ones.
IdsDistinctAndStable ==
  [][(FromCreated /\ GridShown /\ tableData' # tableData) =>
       LET d == data
           e == tableData'[1]
           lost == IdsOf(d) \ IdsOf(e)
       IN /\ Cardinality(IdsOf(e)) = Elements(e)
          /\ IdsOf(e) \ IdsOf(d) \subseteq {UUID(n) : n \in nextId..(nextId' - 1)}
          /\ \/ lost = {}
             \/ /\ Len(e.rows) = Len(d.rows) - 1
                /\ \E i \in 1..Len(d.rows) : lost = RowIds(d, i)
             \/ /\ Len(e.columns) = Len(d.columns) - 1
                /\ \E j \in 1..Len(d.columns) : lost = ColumnIds(d, j)
          /\ \A i \in 1..Len(d.rows) : \A k \in 1..Len(e.rows) :
               e.rows[k].id = d.rows[i].id =>
                 RowIds(e, k) \cap IdsOf(d) = RowIds(d, i) \ lost]_vars

\* C23 case: a created table after a row was added and a column removed.
IdsDistinctReached ==
  /\ FromCreated
  /\ GridShown
  /\ edits = 2
  /\ Len(data.rows) = 4
  /\ Len(data.columns) = 2

\* Sequence b is sequence a with the elements at 0-based positions p and q
\* exchanged.
Exchanged(a, b, p, q) ==
  /\ Len(b) = Len(a)
  /\ b[p + 1] = a[q + 1]
  /\ b[q + 1] = a[p + 1]
  /\ \A k \in 1..Len(a) : (k # p + 1 /\ k # q + 1) => b[k] = a[k]

\* Document e is document d with the columns at 0-based positions p and q, and
\* the cells at these positions in every row, exchanged; every cell is under the
\* column id it was under, and nothing else differs.
ColumnsExchanged(d, e, p, q) ==
  /\ DOMAIN e = DOMAIN d
  /\ \A k \in DOMAIN d \ {"columns", "rows"} : e[k] = d[k]
  /\ Exchanged(d.columns, e.columns, p, q)
  /\ Len(e.rows) = Len(d.rows)
  /\ \A i \in 1..Len(d.rows) :
       /\ Exchanged(d.rows[i].cells, e.rows[i].cells, p, q)
       /\ [e.rows[i] EXCEPT !.cells = d.rows[i].cells] = d.rows[i]
       /\ \A j \in 1..Len(d.columns) :
            \E k \in 1..Len(e.columns) :
              /\ e.columns[k].id = d.columns[j].id
              /\ e.rows[i].cells[k] = d.rows[i].cells[j]

\* C24: on every document, moveColumnLeft(i) for i > 0 and moveColumnRight(i)
\* for i < colCount - 1 exchange the two adjacent columns and, in every row, the
\* two cells at these positions, and change nothing else.
ColumnMoveCarriesCells ==
  GridShown =>
    \A index \in ColumnIndices :
      /\ index > 0 =>
           ColumnsExchanged(data, HandleMoveColumnLeft(data, index)[1], index - 1, index)
      /\ index < Len(data.columns) - 1 =>
           ColumnsExchanged(data, HandleMoveColumnRight(data, index)[1], index, index + 1)

\* C24 case: the two columns of the other tool's table were exchanged, and the
\* cell with the partial format came along to the front.
ColumnMoveReached ==
  /\ GridShown
  /\ storedData = Some(ForeignTable)
  /\ data.columns = <<ForeignTable.columns[2], ForeignTable.columns[1]>>
  /\ data.rows[1].cells[1].id = "a2"

\* Sequence b is sequence a less its element at 0-based position p.
Without(a, b, p) ==
  /\ Len(b) = Len(a) - 1
  /\ \A k \in 1..Len(b) : b[k] = IF k <= p THEN a[k] ELSE a[k + 1]

\* C25: with more than one row, removeRow(i) deletes row i and nothing else;
\* with more than one column, removeColumn(i) deletes column i and the cell at
\* index i of every row and nothing else.
RemoveDeletesOne ==
  GridShown =>
    /\ Len(data.rows) > 1 =>
         \A index \in RowIndices :
           LET e == HandleRemoveRow(data, index)[1]
           IN /\ Without(data.rows, e.rows, index)
              /\ [e EXCEPT !.rows = data.rows] = data
    /\ Len(data.columns) > 1 =>
         \A index \in ColumnIndices :
           LET e == HandleRemoveColumn(data, index)[1]
           IN /\ Without(data.columns, e.columns, index)
              /\ Len(e.rows) = Len(data.rows)
              /\ \A i \in 1..Len(data.rows) :
                   /\ Without(data.rows[i].cells, e.rows[i].cells, index)
                   /\ [e.rows[i] EXCEPT !.cells = data.rows[i].cells] = data.rows[i]
              /\ DOMAIN e = DOMAIN data
              /\ \A k \in DOMAIN data \ {"columns", "rows"} : e[k] = data[k]

\* C25 case: the first column of the other tool's table was removed; its second
\* column and second cell are what is left.
RemoveDeletesReached ==
  /\ GridShown
  /\ storedData = Some(ForeignTable)
  /\ data.columns = <<ForeignTable.columns[2]>>
  /\ data.rows[1].cells = <<ForeignTable.rows[1].cells[2]>>

\* Document e is document d with one new row at 0-based position `at`: not a
\* header, with one empty cell per column; nothing else differs.
RowInserted(d, e, at) ==
  /\ Len(e.rows) = Len(d.rows) + 1
  /\ Without(e.rows, d.rows, at)
  /\ [e EXCEPT !.rows = d.rows] = d
  /\ e.rows[at + 1].isHeader = FALSE
  /\ Len(e.rows[at + 1].cells) = Len(d.columns)
  /\ \A j \in 1..Len(d.columns) : e.rows[at + 1].cells[j].content = ""

\* C26: on every document, addRow appends and insertRowAfter(i) inserts at
\* index i + 1 one new non-header row of columns.length empty cells; the rows
\* there were, the columns and the settings are unchanged.
RowInsertedInPlace ==
  GridShown =>
    /\ RowInserted(data, HandleAddRow(data, nextId)[1], Len(data.rows))
    /\ \A index \in RowIndices :
         RowInserted(data, HandleInsertRowAfter(data, index, nextId)[1], index + 1)

\* C26 case: a row was inserted between the two rows of the stored table.
RowInsertedReached ==
  /\ GridShown
  /\ storedData = Some(SavedTable)
  /\ Len(data.rows) = 3
  /\ data.rows[1] = SavedTable.rows[1]
  /\ data.rows[3] = SavedTable.rows[2]
  /\ data.settings = SavedTable.settings

\* Document e is document d but for field `field` of the cell at (r, c).
OnlyCellField(d, e, r, c, field) ==
  /\ [e EXCEPT !.rows = d.rows] = d
  /\ Len(e.rows) = Len(d.rows)
  /\ \A i \in 1..Len(d.rows) :
       /\ [e.rows[i] EXCEPT !.cells = d.rows[i].cells] = d.rows[i]
       /\ Len(e.rows[i].cells) = Len(d.rows[i].cells)
       /\ \A j \in 1..Len(d.rows[i].cells) :
            IF i = r + 1 /\ j = c + 1
            THEN /\ DOMAIN e.rows[i].cells[j] = DOMAIN d.rows[i].cells[j] \cup {field}
                 /\ \A k \in DOMAIN d.rows[i].cells[j] \ {field} :
                      e.rows[i].cells[j][k] = d.rows[i].cells[j][k]
            ELSE e.rows[i].cells[j] = d.rows[i].cells[j]

\* The formats given to setCellFormat: a complete one and a partial one.
Formats == {DefaultFormat, [align |-> "center"]}

\* C27: on every document, setCellContent(r, c, text) sets the content of the
\* cell at (r, c) and setCellFormat(r, c, format) its format, and neither
\* changes anything else.
CellEditIsLocal ==
  GridShown =>
    \A r \in RowIndices : \A c \in 0..(Len(data.rows[r + 1].cells) - 1) :
      /\ \A text \in Texts :
           LET e == HandleCellChange(data, r, c, text)[1]
           IN /\ OnlyCellField(data, e, r, c, "content")
              /\ e.rows[r + 1].cells[c + 1].content = text
      /\ \A format \in Formats :
           LET e == HandleCellFormatChange(data, r, c, format)[1]
           IN /\ OnlyCellField(data, e, r, c, "format")
              /\ e.rows[r + 1].cells[c + 1].format = format

\* C27 case: the second cell of the other tool's table got a text and keeps
\* its partial format; the first cell is as it was.
CellEditReached ==
  /\ GridShown
  /\ storedData = Some(ForeignTable)
  /\ Len(data.rows) = 1
  /\ Len(data.rows[1].cells) = 2
  /\ data.rows[1].cells[2] = [ForeignTable.rows[1].cells[2] EXCEPT !.content = "x"]
  /\ data.rows[1].cells[1] = ForeignTable.rows[1].cells[1]

\* A step in which loadInitialData gets its answer.
LoadCompletes == getValueCall /\ ~getValueCall'

\* A step in which an outstanding setValue call resolves.
SaveSucceeds ==
  /\ Len(setValueCalls') < Len(setValueCalls)
  /\ successMessage' = Some(SavedMessage)

\* C28: the snapshot is replaced only by a load that completes or a save that
\* succeeds; every other step (a Grid Editor operation, a Save click, Cancel, a
\* failed save) leaves it, and so the document it encodes, as it was.
SnapshotKept ==
  [][(LoadCompletes \/ SaveSucceeds) \/ originalData' = originalData]_vars

\* C28 case: after two edits and a failed save the snapshot is still the text
\* the load made of the stored table.
SnapshotKeptReached ==
  /\ GridShown
  /\ storedData = Some(SavedTable)
  /\ edits = 2
  /\ error = Some(SaveFailedMessage)
  /\ isDirty
  /\ originalData = Some(SerializeTableData(SavedTable, 0))
  /\ SnapshotDocument # tableData

\* C29: once the load is over, the document in memory passes validateTableData,
\* and the error of handleSave's validation is never shown.
DocumentStaysValid ==
  GridShown =>
    /\ ValidateTableData(data)
    /\ error # Some(InvalidStructureMessage)

\* C29 case: a document was edited twice and saved: handleSave validated it and
\* the host took it.
DocumentValidReached ==
  /\ GridShown
  /\ edits = 2
  /\ successMessage = Some(SavedMessage)
  /\ storedData = tableData
  /\ error = null

\* The answers of an unset field: null, a value that is no string, the empty
\* string and a string of whitespace.
UnsetValues == {HNull, HNum(7)} \cup {HText(text) : text \in BlankTexts}

\* C30: when getValue resolves to null, a non-string, an empty or a
\* whitespace-only string, loading ends with a fresh 3 x 3 header table, isDirty
\* false and no message; a load sets a warning only when a non-blank string was
\* not accepted by parseTableData or getValue rejected.
UnsetFieldStartsFresh ==
  [][\A fieldValue \in HostValues :
       LoadInitialDataResolved(fieldValue) =>
         /\ fieldValue \in UnsetValues =>
              /\ ~isLoading'
              /\ tableData' # null
              /\ IsFreshTable(tableData'[1])
              /\ ~isDirty'
              /\ error' = null
              /\ successMessage' = null
         /\ error' # null =>
              /\ fieldValue \in {HText(text) : text \in InvalidTexts}
              /\ ~EmptyString(Trim(fieldValue.text))]_vars

\* C30 case: loading has just ended on an unset field: a created table and no
\* message.
UnsetFieldReached ==
  /\ GridShown
  /\ edits = 0
  /\ FromCreated
  /\ tableData = storedData
  /\ error = null
  /\ successMessage = null
  /\ ~isDirty

\* C31: on a host that answers every call, loading ends, and whenever a save is
\* under way it ends, isSaving false, whether the host took the text or not.
CallsEnd == (<>(~isLoading)) /\ (isSaving ~> ~isSaving)

\* C31 case: a save the host rejected with an Error has ended.
CallsEndReached ==
  /\ ~isLoading
  /\ ~isSaving
  /\ setValueCalls = <<>>
  /\ error = Some("Request timed out")

\* C32: a save that succeeds leaves the document as it is, makes the text given
\* to setValue the snapshot, sets isDirty false and the success message, and
\* leaves no error; every later change of the document by the Grid Editor
\* clears the success message.
SaveSucceededSettles ==
  [][/\ SetValueResolved =>
          /\ tableData' = tableData
          /\ originalData' = Some(Head(setValueCalls).jsonData)
          /\ ~isDirty'
          /\ successMessage' = Some(SavedMessage)
          /\ error' = null
          /\ ~isSaving'
     /\ (edits' # edits /\ tableData' # tableData) => successMessage' = null]_vars

\* C32 case: a save has succeeded on a document that was edited while the call
\* was outstanding: the document is kept, the snapshot is the text sent.
SaveSucceededReached ==
  /\ GridShown
  /\ successMessage = Some(SavedMessage)
  /\ ~isDirty
  /\ error = null
  /\ raced
  /\ tableData # storedData
  /\ originalData # Some(SerializeTableData(data, now))

\* C33: from a created table on, after every sequence of Grid Editor operations,
\* settings.hasHeaderRow is true exactly when some row is a header row.
HeaderFlagMatchesRows ==
  (GridShown /\ FromCreated) =>
    (data.settings.hasHeaderRow <=> \E i \in 1..Len(data.rows) : IsHeader(data.rows[i]))

\* The selection denotes a cell of the document.
SelectionInRange ==
  /\ selectedCell # null
  /\ selectedCell[1].rowIndex < Len(data.rows)
  /\ selectedCell[1].cellIndex < Len(data.rows[selectedCell[1].rowIndex + 1].cells)

\* C34: the toolbar is offered exactly when the selection denotes a cell of the
\* document, and every format it can then emit is applied by setCellFormat to
\* that cell alone.
FormatOnlyExistingCell ==
  GridShown =>
    /\ ToolbarShown <=> SelectionInRange
    /\ ToolbarShown =>
         \A newFormat \in ToolbarFormats(GetSelectedCellData(data, selectedCell)[1]) :
           OnlyCellField(data,
                         HandleCellFormatChange(data, selectedCell[1].rowIndex,
                                                selectedCell[1].cellIndex, newFormat)[1],
                         selectedCell[1].rowIndex, selectedCell[1].cellIndex, "format")

\* C34 case: the row of the selected cell was removed, the selection is past
\* the last row and the toolbar is not offered.
SelectionOutOfRangeReached ==
  /\ GridShown
  /\ selectedCell # null
  /\ selectedCell[1].rowIndex >= Len(data.rows)
  /\ ~ToolbarShown

\* C35: no step that changes the document changes selectedCell, and every step
\* that changes selectedCell is a click on a cell.
SelectionFollowsClicks ==
  [][/\ tableData' # tableData => selectedCell' = selectedCell
     /\ selectedCell' # selectedCell => SelectCell]_vars

\* C35 case: the first cell of the other tool's table was selected and the
\* columns were exchanged: the selection is the same position, and the toolbar
\* is given the cell that is there now.
SelectionKeptReached ==
  /\ GridShown
  /\ storedData = Some(ForeignTable)
  /\ selectedCell = Some([rowIndex |-> 0, cellIndex |-> 0])
  /\ ToolbarShown
  /\ GetSelectedCellData(data, selectedCell)[1].id = "a2"

\* C36: while isLoading is true the only step is the answer of getValue, and
\* from the step that ends loading on there is a document in memory.
LoadedBeforeUse ==
  [][/\ isLoading => LoadCompletes
     /\ ~isLoading' => tableData' # null]_vars

\* C36 case: loading ended on a rejected getValue; there is a document, and it
\* has been edited and saved since.
LoadedBeforeUseReached ==
  /\ ~isLoading
  /\ tableData # null
  /\ FromCreated
  /\ originalData # Some(SerializeTableData(storedData[1], 0))
  /\ successMessage = Some(SavedMessage)

\* C37: the error message and the success message are never both set.
OneMessageAtATime == ~(error # null /\ successMessage # null)

\* C37 case: a save succeeded at time 1 and a later save was rejected: the error
\* is shown, the success message is gone.
OneMessageReached ==
  /\ GridShown
  /\ error = Some(SaveFailedMessage)
  /\ successMessage = null
  /\ isDirty
  /\ originalData = Some(SerializeTableData(storedData[1], 1))

\* C38: on every document, moveRowUp(i) followed by moveRowDown(i - 1), for
\* 0 < i < rowCount, and moveColumnLeft(i) followed by moveColumnRight(i - 1),
\* for 0 < i < colCount, give the document back.
AdjacentMovesUndo ==
  GridShown =>
    /\ \A index \in RowIndices \ {0} :
         HandleMoveRowDown(HandleMoveRowUp(data, index)[1], index - 1) = Some(data)
    /\ \A index \in ColumnIndices \ {0} :
         HandleMoveColumnRight(HandleMoveColumnLeft(data, index)[1], index - 1) = Some(data)

\* C38 case: the second row of a created table was moved up, and moving the
\* first row down gives the created table back.
AdjacentMovesReached ==
  /\ GridShown
  /\ FromCreated
  /\ edits = 1
  /\ data.rows[1] = storedData[1].rows[2]
  /\ data.rows[2] = storedData[1].rows[1]
  /\ tableData # storedData
  /\ HandleMoveRowDown(data, 0) = storedData

\* C39: after the load, a step that replaces the document without a Grid Editor
\* event, which is what Cancel does, starts with isDirty true and no setValue
\* call outstanding; while a call is outstanding the document changes by
\* Grid Editor events only, and in a clean state by nothing else either.
CancelOnlyWhenDirtyAndIdle ==
  [][/\ (~getValueCall /\ edits' = edits /\ tableData' # tableData) =>
          /\ isDirty
          /\ ~isSaving
          /\ setValueCalls = <<>>
          /\ tableData' = SnapshotDocument
     /\ HandleCancel => (isDirty /\ ~isSaving /\ setValueCalls = <<>>)]_vars

\* C39 case: Cancel has replaced a document edited twice, at time 1, by the
\* one the snapshot encodes.
CancelWhenDirtyReached ==
  /\ GridShown
  /\ storedData = Some(SavedTable)
  /\ edits = 2
  /\ now = 1
  /\ ~isDirty
  /\ ~isSaving
  /\ successMessage = null
  /\ tableData = SnapshotDocument

\* C40: whatever the host returned on load, once loading is over the document
\* has at least one row and at least one column.
NeverEmptyGrid ==
  GridShown => (Len(data.rows) >= 1 /\ Len(data.columns) >= 1)

====
